---- MODULE Spec2Model ----
(***************************************************************************)
(* Model of the incremental extraction-and-reconciliation controller of    *)
(* CombinedGoogleMapsScraper (src/combined-scraper.js):                    *)
(*   insertWithRetry, getPermanentSearchProgress, scrapeUrls,              *)
(*   scrapeUrlsAndDetails and scrapeAndEnrich.                             *)
(* A business record is identified by its URL; the other fields matter     *)
(* only through "present or empty" (the validation of the main loop).      *)
(* The browser page and the Supabase store are the environment: every      *)
(* call to them answers with one of the outcomes the code distinguishes.   *)
(* Array positions are the 0-based indices of the JavaScript code; the     *)
(* card at index i is allCards[i + 1] here.                                *)
(***************************************************************************)
EXTENDS Integers, Sequences, FiniteSets, TLC

\* ------------------------------------------------------------- bounds
MaxCards == 3          \* longest card list page.$$('a.hfpxzc') returns
MaxTarget == 2         \* largest maxResults / desiredNewResults requested
Scrolls == {0, 1}       \* scrolls it can take until enough cards are loaded
Urls == {1, 2, 3}      \* the business URLs (hrefs) that exist
StoreOrder == <<3, 2>>  \* initial rows are a prefix of this, oldest first
SponsoredUrls == {3}   \* hrefs of the cards whose text includes 'Sponsored'
UrlLimits == {0, 1, 2} \* maxResults values of scrapeUrls, 0 for none
DirectBuffers == {0}   \* buffer values of direct calls of scrapeUrlsAndDetails
DirectIndexes == {0, 2} \* updatedIndex values of direct calls
MaxPercentTarget == 40 \* largest target the percent computation is given
MaxList == 3           \* longest result list handed to the final correction
LongList == 7          \* cards of the long card list

\* -------------------------------------------------- program constants
maxRetries == 3            \* insertWithRetry(data, maxRetries = 3)
maxScrollAttempts == 50    \* const maxScrollAttempts = 50
EnrichBuffer == 20         \* scrapeAndEnrich passes buffer 20
QueueSlack == 5            \* urlsToProcess.length >= targetResults - newFound + 5
BackoffBase == 2           \* Math.pow(2, attempt)
BackoffUnit == 1000        \* ... * 1000 (milliseconds)

\* ------------------------------------------------------------ helpers
Range(s) == {s[i] : i \in DOMAIN s}

Min(a, b) == IF a < b THEN a ELSE b

\* a splice that keeps the last n entries
SpliceTail(s, n) == IF Len(s) > n THEN SubSeq(s, Len(s) - n + 1, Len(s)) ELSE s

\* results.splice(n): keep the first n entries
Splice(s, n) == IF Len(s) > n THEN SubSeq(s, 1, n) ELSE s

\* Array.prototype.slice(0, n)
Slice0(s, n) == SubSeq(s, 1, Min(n, Len(s)))

\* rows.reverse(): newest row first
RECURSIVE Reverse(_)
Reverse(s) == IF s = <<>> THEN <<>> ELSE Append(Reverse(Tail(s)), Head(s))

\* number of entries of s equal to x
RECURSIVE Count(_, _)
Count(s, x) ==
  IF s = <<>> THEN 0
  ELSE (IF Head(s) = x THEN 1 ELSE 0) + Count(Tail(s), x)

\* A card handle is written as what getAttribute('href') gives for it: a
\* URL, or Broken when the call throws. Unread stands for a card the loop
\* never reads (it lies before the cursor), whatever its href.
Broken == 0
Unread == 0 - 1

\* Every card list page.$$('a.hfpxzc') can return, as far as the loop can
\* tell them apart: any number of cards up to MaxCards, the first `passed`
\* of them never read.
CardLists(passed) ==
  UNION {{[i \in 1..n |-> IF i <= passed THEN Unread ELSE hrefs[i]] :
            hrefs \in [(passed + 1)..n -> Urls \cup {Broken}]} :
         n \in 0..MaxCards}

\* the URLs a card list shows
Shown(cards) == Range(cards) \cap Urls

\* ------------------------------------------- the numbers of JavaScript
\* A Number is an IEEE 754 double. A positive one is written here as
\* [hi, mid, lo, scale]: its 53-digit binary significand is
\* hi * 2^35 + mid * 2^17 + lo, with 2^17 <= hi < 2^18, mid < 2^18 and
\* lo < 2^17, and its value is significand * 2^(-scale).
Double(hi, mid, lo, scale) == [hi |-> hi, mid |-> mid, lo |-> lo, scale |-> scale]

\* the next double up: the significand plus one unit in the last place
NextUp(x) ==
  IF x.lo + 1 < 2 ^ 17 THEN Double(x.hi, x.mid, x.lo + 1, x.scale)
  ELSE IF x.mid + 1 < 2 ^ 18 THEN Double(x.hi, x.mid + 1, 0, x.scale)
  ELSE IF x.hi + 1 < 2 ^ 18 THEN Double(x.hi + 1, 0, 0, x.scale)
  ELSE Double(2 ^ 17, 0, 0, x.scale - 1)

\* Round to nearest, ties to even: x is the exact value cut off after 53
\* digits, `guard` the first digit cut off, `sticky` whether any later
\* digit is 1.
RoundToNearestEven(x, guard, sticky) ==
  IF guard = 1 /\ (sticky \/ x.lo % 2 = 1) THEN NextUp(x) ELSE x

\* n / d for integers 0 < n <= d < 2^13, as the double the division gives:
\* n is doubled z times to bring the quotient into [1/2, 1), then long
\* division gives 18, 18 and 17 digits, the guard digit and the rest.
Divide(n, d) ==
  IF n = d THEN Double(2 ^ 17, 0, 0, 52)
  ELSE LET z == CHOOSE z \in 0..12 : n * (2 ^ z) < d /\ 2 * n * (2 ^ z) >= d
           r0 == n * (2 ^ z)
           hi == (r0 * (2 ^ 18)) \div d
           r1 == (r0 * (2 ^ 18)) % d
           mid == (r1 * (2 ^ 18)) \div d
           r2 == (r1 * (2 ^ 18)) % d
           lo == (r2 * (2 ^ 17)) \div d
           r3 == (r2 * (2 ^ 17)) % d
       IN RoundToNearestEven(Double(hi, mid, lo, z + 53),
                             (2 * r3) \div d, (2 * r3) % d # 0)

\* x * 100 as the double the multiplication gives: the exact product has 6
\* or 7 digits more than 53, which are cut off and rounded.
Times100(x) ==
  LET l == x.lo * 100
      m == x.mid * 100 + l \div (2 ^ 17)
      top == x.hi * 100 + m \div (2 ^ 18)
      mid == m % (2 ^ 18)
      lo == l % (2 ^ 17)
      cut == IF top >= 2 ^ 24 THEN 7 ELSE 6
      off == lo % (2 ^ cut)
  IN RoundToNearestEven(
       Double(top \div (2 ^ cut),
              (top % (2 ^ cut)) * (2 ^ (18 - cut)) + mid \div (2 ^ cut),
              (mid % (2 ^ cut)) * (2 ^ (17 - cut)) + lo \div (2 ^ cut),
              x.scale - cut),
       off \div (2 ^ (cut - 1)), off % (2 ^ (cut - 1)) # 0)

\* Math.round(x) for 0 < x < 2^17: the integer part, plus one when the
\* digit of weight 1/2 is 1 (a half goes up)
MathRound(x) ==
  (IF x.scale - 35 >= 18 THEN 0 ELSE x.hi \div (2 ^ (x.scale - 35)))
  + (IF x.scale - 36 >= 18 THEN 0 ELSE (x.hi \div (2 ^ (x.scale - 36))) % 2)

\* Math.round((newFound / targetResults) * 100)
Percent(newFound, targetResults) ==
  MathRound(Times100(Divide(newFound, targetResults)))

\* const targetResults = desiredNewResults || maxResults   (null is 0)
TargetResults(desiredNewResults, maxResults) ==
  IF desiredNewResults # 0 THEN desiredNewResults ELSE maxResults

\* ------------------------------------------------------------ records
\* What extractBusinessDetails returns for url: each required field is
\* present (TRUE) or the empty string (FALSE).
DetailsOf(url) ==
  [URL : {url}, BusinessName : BOOLEAN, Address : BOOLEAN, PhoneNumber : BOOLEAN]

\* a validation that looks at the business name only
IncompleteNameOnly(details) == ~details.BusinessName

\* !details['Business Name'] || !details['Address'] || !details['Phone Number']
Incomplete(details) ==
  ~details.BusinessName \/ ~details.Address \/ ~details.PhoneNumber

\* mapToSupabaseColumns, then mappedDetails['search_session_id'] = sessionId
MapToSupabaseColumns(details, sessionId) ==
  [url |-> details.URL, business_name |-> details.BusinessName,
   address |-> details.Address, phone_number |-> details.PhoneNumber,
   search_session_id |-> sessionId]

\* "Convert database format back to scraper format"
DbToScraper(dbResult) ==
  [URL |-> dbResult.url, BusinessName |-> dbResult.business_name,
   Address |-> dbResult.address, PhoneNumber |-> dbResult.phone_number]

\* a row of business_results written by an earlier run
OldRow(url) ==
  [url |-> url, business_name |-> TRUE, address |-> TRUE,
   phone_number |-> TRUE, search_session_id |-> 0]

RowUrls(rows) == {rows[i].url : i \in DOMAIN rows}

UrlsOf(list) == [i \in DOMAIN list |-> list[i].URL]

\* the tables the program can find at start: rows for a prefix of StoreOrder
InitialStores ==
  {[i \in 1..n |-> OldRow(StoreOrder[i])] : n \in 0..Len(StoreOrder)}

\* ----------------------------------------------------- insertWithRetry
\* Every way one call insertWithRetry(data) can go from attempt `attempt`
\* on, the table being `rows`: the set of [data, success, rows, attempts,
\* waits, answers, outcome].  An attempt is answered with inserted rows,
\* with a duplicate-key error (exactly when the url is in the table), with
\* no error and no rows, or with another error (returned or thrown alike).
\* `answers` lists the answers of the attempts made, `outcome` is the last.
InsertResult(data, success, rows, attempts, waits, answers, outcome) ==
  [data |-> data, success |-> success, rows |-> rows, attempts |-> attempts,
   waits |-> waits, answers |-> answers, outcome |-> outcome]

\* a wait that does not grow
WaitTimeFlat(attempt) == BackoffUnit

WaitTime(attempt) == (BackoffBase ^ attempt) * BackoffUnit

\* insertWithRetry without the duplicate-key branch: the violation is an
\* error like any other
RECURSIVE InsertWithRetryNoDuplicateBranch(_, _, _, _, _)
InsertWithRetryNoDuplicateBranch(data, rows, attempt, waits, answers) ==
  LET answered ==
        IF data.url \in RowUrls(rows)
        THEN {}
        ELSE {InsertResult(data, TRUE, Append(rows, data), attempt, waits,
                           Append(answers, "inserted"), "inserted"),
              InsertResult(data, FALSE, rows, attempt, waits,
                           Append(answers, "norows"), "norows")}
      failed ==
        IF attempt = maxRetries
        THEN {InsertResult(data, FALSE, rows, attempt, waits,
                           Append(answers, "error"),
                           IF data.url \in RowUrls(rows) THEN "duplicate"
                                                         ELSE "failed")}
        ELSE InsertWithRetryNoDuplicateBranch(data, rows, attempt + 1,
                                              Append(waits, WaitTime(attempt)),
                                              Append(answers, "error"))
  IN answered \cup failed

\* insertWithRetry going on to its next attempt after an insert answered
\* with no error and no rows
RECURSIVE InsertWithRetryGoesOnAfterNoRows(_, _, _, _, _)
InsertWithRetryGoesOnAfterNoRows(data, rows, attempt, waits, answers) ==
  LET answered ==
        IF data.url \in RowUrls(rows)
        THEN {InsertResult(data, TRUE, rows, attempt, waits,
                           Append(answers, "duplicate"), "duplicate")}
        ELSE {InsertResult(data, TRUE, Append(rows, data), attempt, waits,
                           Append(answers, "inserted"), "inserted")}
      norows ==
        IF data.url \in RowUrls(rows) THEN {}
        ELSE IF attempt = maxRetries
        THEN {InsertResult(data, FALSE, rows, attempt, waits,
                           Append(answers, "norows"), "norows")}
        ELSE InsertWithRetryGoesOnAfterNoRows(data, rows, attempt + 1, waits,
                                              Append(answers, "norows"))
      failed ==
        IF attempt = maxRetries
        THEN {InsertResult(data, FALSE, rows, attempt, waits,
                           Append(answers, "error"), "failed")}
        ELSE InsertWithRetryGoesOnAfterNoRows(data, rows, attempt + 1,
                                              Append(waits, WaitTime(attempt)),
                                              Append(answers, "error"))
  IN answered \cup norows \cup failed

\* for (attempt = 1; attempt <= maxRetries; attempt++): the duplicate-key
\* error returns true, any other error is thrown to the catch, which
\* returns false at the last attempt and waits otherwise; inserted rows
\* return true, no rows return false.
RECURSIVE InsertWithRetry(_, _, _, _, _)
InsertWithRetry(data, rows, attempt, waits, answers) ==
  LET answered ==
        IF data.url \in RowUrls(rows)
        THEN {InsertResult(data, TRUE, rows, attempt, waits,
                           Append(answers, "duplicate"), "duplicate")}
        ELSE {InsertResult(data, TRUE, Append(rows, data), attempt, waits,
                           Append(answers, "inserted"), "inserted"),
              InsertResult(data, FALSE, rows, attempt, waits,
                           Append(answers, "norows"), "norows")}
      failed ==
        IF attempt = maxRetries
        THEN {InsertResult(data, FALSE, rows, attempt, waits,
                           Append(answers, "error"), "failed")}
        ELSE InsertWithRetry(data, rows, attempt + 1,
                             Append(waits, WaitTime(attempt)),
                             Append(answers, "error"))
  IN answered \cup failed

\* the argument of a call that was not made
NoData ==
  [url |-> Broken, business_name |-> FALSE, address |-> FALSE,
   phone_number |-> FALSE, search_session_id |-> 0]

NoInsert == InsertResult(NoData, FALSE, <<>>, 0, <<>>, <<>>, "none")

\* --------------------------------------- the URL queue of one pass
\* for (let i = currentUpdatedIndex; i < allCards.length; i++) { ... }
\* A card whose getAttribute('href') throws is skipped by the catch.
\* the loop without its existingUrls.has(url) check
RECURSIVE BuildQueueNoExisting(_, _, _, _, _, _)
BuildQueueNoExisting(cards, i, processed, existing, queue, cap) ==
  IF i >= Len(cards) THEN [processedUrls |-> processed, urlsToProcess |-> queue]
  ELSE LET url == cards[i + 1] IN
    IF url = Broken
      THEN BuildQueueNoExisting(cards, i + 1, processed, existing, queue, cap)
    ELSE IF url \in processed
      THEN BuildQueueNoExisting(cards, i + 1, processed, existing, queue, cap)
    ELSE LET q == Append(queue, [url |-> url, index |-> i]) IN
      IF Len(q) >= cap
        THEN [processedUrls |-> processed \cup {url}, urlsToProcess |-> q]
        ELSE BuildQueueNoExisting(cards, i + 1, processed \cup {url},
                                  existing, q, cap)

RECURSIVE BuildQueue(_, _, _, _, _, _)
BuildQueue(cards, i, processed, existing, queue, cap) ==
  IF i >= Len(cards) THEN [processedUrls |-> processed, urlsToProcess |-> queue]
  ELSE LET url == cards[i + 1] IN
    IF url = Broken
      THEN BuildQueue(cards, i + 1, processed, existing, queue, cap)
    ELSE IF url \in processed
      THEN BuildQueue(cards, i + 1, processed, existing, queue, cap)
    ELSE IF url \in existing
      THEN BuildQueue(cards, i + 1, processed, existing, queue, cap)
    ELSE LET q == Append(queue, [url |-> url, index |-> i]) IN
      IF Len(q) >= cap
        THEN [processedUrls |-> processed \cup {url}, urlsToProcess |-> q]
        ELSE BuildQueue(cards, i + 1, processed \cup {url}, existing, q, cap)

\* -------------------------------------------------------------- state
VARIABLES
  pc,                  \* where the program is
  entry,               \* the public method called: "scrapeAndEnrich",
                       \* "scrapeUrlsAndDetails" or "scrapeUrls"
  store,               \* table business_results, oldest row first
  maxResults,          \* scrapeAndEnrich: maxResults
  updatedIndex,        \* the cursor the run starts with
  lastRetrievedCount,  \* scrapeAndEnrich: lastRetrievedCount
  existingUrls,        \* snapshot of the stored URLs, loaded at run start
  sessionId,           \* id of the search_sessions row, 0 for null
  targetResults,       \* scrapeUrlsAndDetails: targetResults
  buffer,              \* scrapeUrlsAndDetails: buffer
  results,             \* scrapeUrlsAndDetails: results (the same array
                       \* scrapeAndEnrich goes on with)
  newFound,            \* scrapeUrlsAndDetails: newFound
  processedUrls,       \* scrapeUrlsAndDetails: processedUrls
  currentUpdatedIndex, \* scrapeUrlsAndDetails: currentUpdatedIndex
  allCards,            \* hrefs of the card handles held in allCards
  scrollAttempts,      \* scrapeUrlsAndDetails: scrollAttempts
  urlsToProcess,       \* the queue of this pass
  qi,                  \* index i of the processing loop
  scrapeResult,        \* what scrapeUrlsAndDetails returned
  returned,            \* what scrapeAndEnrich, or scrapeUrls, returned
  storeAtStart,        \* history: the table when the run started
  listed,              \* history: the URLs the card lists have shown
  processed,           \* history: the candidates the processing loop took
                       \* from its queue, each with its fate
  topUpQuery,          \* history: the answer to the top-up query
  progressLog,         \* history: the calls of progressCb
  lastInsert,          \* history: the insertWithRetry call made for the
                       \* candidate just processed, NoInsert if none
  reloads              \* history: the currentIndex arguments of the calls
                       \* of reloadPageAndScrollToPosition that the catch
                       \* of the loop body made for that candidate

vars ==
  <<pc, entry, store, maxResults, updatedIndex, lastRetrievedCount,
    existingUrls, sessionId, targetResults, buffer, results, newFound,
    processedUrls, currentUpdatedIndex, allCards, scrollAttempts,
    urlsToProcess, qi, scrapeResult, returned, storeAtStart, listed,
    processed, topUpQuery, progressLog, lastInsert, reloads>>

callVars == <<entry, maxResults>>
progressVars == <<updatedIndex, lastRetrievedCount, existingUrls>>
loopVars ==
  <<results, newFound, processedUrls, currentUpdatedIndex, allCards,
    scrollAttempts, urlsToProcess, qi>>
runHistory == <<storeAtStart, listed, processed, topUpQuery, progressLog>>
historyVars == <<runHistory, lastInsert, reloads>>

NoResult == [newFound |-> 0, updatedIndex |-> 0, results |-> <<>>, via |-> "none"]

Init ==
  /\ pc = "idle"
  /\ entry = "none"
  /\ store \in InitialStores
  /\ maxResults = 0
  /\ updatedIndex = 0
  /\ lastRetrievedCount = 0
  /\ existingUrls = {}
  /\ sessionId = 0
  /\ targetResults = 0
  /\ buffer = 0
  /\ results = <<>>
  /\ newFound = 0
  /\ processedUrls = {}
  /\ currentUpdatedIndex = 0
  /\ allCards = <<>>
  /\ scrollAttempts = 0
  /\ urlsToProcess = <<>>
  /\ qi = 0
  /\ scrapeResult = NoResult
  /\ returned = <<>>
  /\ storeAtStart = store
  /\ listed = {}
  /\ processed = <<>>
  /\ topUpQuery = "none"
  /\ progressLog = <<>>
  /\ lastInsert = NoInsert
  /\ reloads = <<>>

\* ------------------------------------------------ scrapeAndEnrich, start
\* A caller invokes scrapeAndEnrich(searchTerm, location, maxResults, cb).
ScrapeAndEnrich ==
  /\ pc = "idle"
  /\ \E T \in 1..MaxTarget : maxResults' = T
  /\ entry' = "scrapeAndEnrich"
  /\ pc' = "getProgress"
  /\ UNCHANGED <<store, progressVars, sessionId, targetResults, buffer,
                 loopVars, scrapeResult, returned, historyVars>>

\* getPermanentSearchProgress: select('url') answers with the rows ...
ProgressRead ==
  /\ pc = "getProgress"
  /\ IF Len(store) > 0
       THEN /\ updatedIndex' = Len(store)
            /\ lastRetrievedCount' = Len(store)
            /\ existingUrls' = RowUrls(store)
       ELSE /\ updatedIndex' = 0
            /\ lastRetrievedCount' = 0
            /\ existingUrls' = {}
  /\ pc' = "createSession"
  /\ UNCHANGED <<callVars, store, sessionId, targetResults, buffer, loopVars,
                 scrapeResult, returned, historyVars>>

\* ... or with resultsError ...
ProgressError ==
  /\ pc = "getProgress"
  /\ updatedIndex' = 0
  /\ lastRetrievedCount' = 0
  /\ existingUrls' = {}
  /\ pc' = "createSession"
  /\ UNCHANGED <<callVars, store, sessionId, targetResults, buffer, loopVars,
                 scrapeResult, returned, historyVars>>

\* ... or the awaited query rejects: nothing catches it, neither in
\* getPermanentSearchProgress nor around its call in scrapeAndEnrich.
ProgressThrow ==
  /\ pc = "getProgress"
  /\ pc' = "thrown"
  /\ UNCHANGED <<callVars, store, progressVars, sessionId, targetResults,
                 buffer, loopVars, scrapeResult, returned, historyVars>>

GetPermanentSearchProgress == ProgressRead \/ ProgressError \/ ProgressThrow

\* The search_sessions insert (inside try/catch), then the call
\* scrapeUrlsAndDetails(..., maxResults, cb, updatedIndex, sessionId, null,
\* 20, existingUrls) with its locals initialised.
CreateSession ==
  /\ pc = "createSession"
  /\ sessionId' \in {0, 1}      \* no row came back (error, throw) or its id
  /\ targetResults' = TargetResults(0, maxResults)
  /\ buffer' = EnrichBuffer
  /\ results' = <<>>
  /\ newFound' = 0
  /\ processedUrls' = {}
  /\ currentUpdatedIndex' = updatedIndex
  /\ allCards' = <<>>
  /\ scrollAttempts' = 0
  /\ urlsToProcess' = <<>>
  /\ qi' = 0
  /\ pc' = "navigate"
  /\ UNCHANGED <<callVars, store, progressVars, scrapeResult, returned,
                 historyVars>>

\* A caller invokes scrapeUrlsAndDetails directly, with its own cursor,
\* buffer and set of known URLs.
ScrapeUrlsAndDetails ==
  /\ pc = "idle"
  /\ entry' = "scrapeUrlsAndDetails"
  /\ \E max \in 1..MaxTarget, desiredNewResults \in 0..MaxTarget :
       targetResults' = TargetResults(desiredNewResults, max)
  /\ updatedIndex' \in DirectIndexes
  /\ currentUpdatedIndex' = updatedIndex'
  /\ buffer' \in DirectBuffers
  /\ existingUrls' \in SUBSET RowUrls(store)
  /\ sessionId' = 0
  /\ results' = <<>>
  /\ newFound' = 0
  /\ processedUrls' = {}
  /\ allCards' = <<>>
  /\ scrollAttempts' = 0
  /\ urlsToProcess' = <<>>
  /\ qi' = 0
  /\ pc' = "navigate"
  /\ UNCHANGED <<store, maxResults, lastRetrievedCount, scrapeResult,
                 returned, historyVars>>

\* ------------------------------------------------ scrapeUrlsAndDetails
\* The function has returned `result`: the locals nothing reads any more
\* are dropped, and control is back in the caller.
Return(result) ==
  /\ scrapeResult' = result
  /\ processedUrls' = {}
  /\ allCards' = <<>>
  /\ urlsToProcess' = <<>>
  /\ qi' = 0
  /\ lastInsert' = NoInsert
  /\ reloads' = <<>>
  /\ pc' = IF entry = "scrapeAndEnrich" THEN "reconcile" ELSE "done"

\* a catch that returns nothing of what was committed
FunctionErrorEmpty ==
  Return([newFound |-> 0, updatedIndex |-> currentUpdatedIndex,
          results |-> <<>>, via |-> "functionError"])

\* catch (functionError) { return { newFound: results.length,
\*   updatedIndex: currentUpdatedIndex, results: results } }
FunctionError ==
  Return([newFound |-> Len(results), updatedIndex |-> currentUpdatedIndex,
          results |-> results, via |-> "functionError"])

\* page.goto(mapsUrl), the two waitForSelector calls and page.$(feed) all
\* succeed: the main loop starts.
NavigateOk ==
  /\ pc = "navigate"
  /\ pc' = "loop"
  /\ UNCHANGED <<callVars, store, progressVars, sessionId, targetResults,
                 buffer, loopVars, scrapeResult, returned, historyVars>>

\* One of them throws (navigation error, timeout).
NavigateFault ==
  /\ pc = "navigate"
  /\ FunctionError
  /\ UNCHANGED <<callVars, store, progressVars, sessionId, targetResults,
                 buffer, results, newFound, currentUpdatedIndex,
                 scrollAttempts, returned, runHistory>>

\* a return for the missing container that starts the cursor over
NoScrollableResetsCursor ==
  /\ pc = "navigate"
  /\ Return([newFound |-> 0, updatedIndex |-> 0,
             results |-> <<>>, via |-> "noScrollable"])
  /\ UNCHANGED <<callVars, store, progressVars, sessionId, targetResults,
                 buffer, results, newFound, currentUpdatedIndex,
                 scrollAttempts, returned, runHistory>>

\* if (!scrollable) return { newFound: 0, updatedIndex: currentUpdatedIndex,
\*                           results: [] }
NoScrollable ==
  /\ pc = "navigate"
  /\ Return([newFound |-> 0, updatedIndex |-> currentUpdatedIndex,
             results |-> <<>>, via |-> "noScrollable"])
  /\ UNCHANGED <<callVars, store, progressVars, sessionId, targetResults,
                 buffer, results, newFound, currentUpdatedIndex,
                 scrollAttempts, returned, runHistory>>

\* a loop without the scroll budget
LoopConditionNoBudget == newFound < targetResults

\* while (newFound < targetResults && scrollAttempts < maxScrollAttempts)
LoopCondition == newFound < targetResults /\ scrollAttempts < maxScrollAttempts

\* allCards.length < currentUpdatedIndex + targetResults + buffer
NeedCards(cards) == Len(cards) < currentUpdatedIndex + targetResults + buffer

\* Top of a pass: if more cards are needed, list the cards, then scroll and
\* list again until enough are loaded or the scroll budget is used up. The
\* page shows enough cards after a number of scrolls in Scrolls, or it
\* never does. The cards an earlier pass has been over lie before the
\* cursor.
LoadCards ==
  /\ pc = "loop"
  /\ LoopCondition
  /\ IF NeedCards(allCards)
       THEN \E cards \in CardLists(Len(allCards)) :
              /\ allCards' = cards
              /\ listed' = listed \cup Shown(cards)
              /\ IF NeedCards(cards)
                   THEN scrollAttempts' = maxScrollAttempts
                   ELSE \E k \in Scrolls :
                          /\ scrollAttempts + k <= maxScrollAttempts
                          /\ scrollAttempts' = scrollAttempts + k
       ELSE UNCHANGED <<allCards, scrollAttempts, listed>>
  /\ pc' = "extract"
  /\ UNCHANGED <<callVars, store, progressVars, sessionId, targetResults,
                 buffer, results, newFound, processedUrls,
                 currentUpdatedIndex, urlsToProcess, qi, scrapeResult,
                 returned, storeAtStart, processed, topUpQuery, progressLog,
                 lastInsert, reloads>>

\* page.$$ or scrollable.evaluate throws while loading (the page is still
\* on a business, the context was destroyed, a timeout): no try inside the
\* loop covers these calls.
LoadFault ==
  /\ pc = "loop"
  /\ LoopCondition
  /\ NeedCards(allCards)
  /\ FunctionError
  /\ UNCHANGED <<callVars, store, progressVars, sessionId, targetResults,
                 buffer, results, newFound, currentUpdatedIndex,
                 scrollAttempts, returned, runHistory>>

\* "Extract URLs from current position": the queue of this pass.
ExtractUrls ==
  /\ pc = "extract"
  /\ LET q == BuildQueue(allCards, currentUpdatedIndex, processedUrls,
                         existingUrls, <<>>,
                         targetResults - newFound + QueueSlack)
     IN /\ processedUrls' = q.processedUrls
        /\ urlsToProcess' = q.urlsToProcess
  /\ qi' = 0
  /\ pc' = "process"
  /\ UNCHANGED <<callVars, store, progressVars, sessionId, targetResults,
                 buffer, results, newFound, currentUpdatedIndex, allCards,
                 scrollAttempts, scrapeResult, returned, historyVars>>

\* for (let i = 0; i < urlsToProcess.length && newFound < targetResults; i++)
ProcessCondition == qi < Len(urlsToProcess) /\ newFound < targetResults

Current == urlsToProcess[qi + 1]

\* the entry of `processed` for the current candidate
Fate(fate) == [url |-> Current.url, index |-> Current.index, fate |-> fate]

\* err.message.includes('Execution context was destroyed') ||
\* err.message.includes('Target page, context or browser has been closed')
ErrorKinds == {"contextDestroyed", "timeout"}

ContextDestroyed(err) == err = "contextDestroyed"

\* the reloads the catch of the loop body makes for the error err of the
\* candidate at `index`: reloadPageAndScrollToPosition(mapsUrl, index + 1)
\* when the context was destroyed (it catches its own faults), else none
Recovery(err, index) == IF ContextDestroyed(err) THEN <<index + 1>> ELSE <<>>

\* a navigation fault that ends the pass
ProcessNavigationFaultBreaks ==
  /\ pc = "process"
  /\ ProcessCondition
  /\ processed' = Append(processed, Fate("navigationFault"))
  /\ \E err \in ErrorKinds : reloads' = Recovery(err, Current.index)
  /\ currentUpdatedIndex' = Current.index + 1
  /\ qi' = Len(urlsToProcess)
  /\ lastInsert' = NoInsert
  /\ UNCHANGED <<pc, callVars, store, progressVars, sessionId, targetResults,
                 buffer, results, newFound, processedUrls, allCards,
                 scrollAttempts, urlsToProcess, scrapeResult, returned,
                 storeAtStart, listed, topUpQuery, progressLog>>

\* page.goto(url) or the wait after it throws (the context was destroyed,
\* or a timeout or another navigation error): the catch of the loop body,
\* with the page reload when the context was destroyed, then
\* currentUpdatedIndex = index + 1; continue.
ProcessNavigationFault ==
  /\ pc = "process"
  /\ ProcessCondition
  /\ processed' = Append(processed, Fate("navigationFault"))
  /\ \E err \in ErrorKinds : reloads' = Recovery(err, Current.index)
  /\ currentUpdatedIndex' = Current.index + 1
  /\ qi' = qi + 1
  /\ lastInsert' = NoInsert
  /\ UNCHANGED <<pc, callVars, store, progressVars, sessionId, targetResults,
                 buffer, results, newFound, processedUrls, allCards,
                 scrollAttempts, urlsToProcess, scrapeResult, returned,
                 storeAtStart, listed, topUpQuery, progressLog>>

\* extractBusinessDetails returns details that lack a required field (its
\* own catch returns them all empty): skipped, the cursor moves on.
ProcessIncomplete ==
  /\ pc = "process"
  /\ ProcessCondition
  /\ {details \in DetailsOf(Current.url) : Incomplete(details)} # {}
  /\ processed' = Append(processed, Fate("incomplete"))
  /\ currentUpdatedIndex' = Current.index + 1
  /\ qi' = qi + 1
  /\ lastInsert' = NoInsert
  /\ reloads' = <<>>
  /\ UNCHANGED <<pc, callVars, store, progressVars, sessionId, targetResults,
                 buffer, results, newFound, processedUrls, allCards,
                 scrollAttempts, urlsToProcess, scrapeResult, returned,
                 storeAtStart, listed, topUpQuery, progressLog>>

\* a loop that pushes and counts whatever insertWithRetry returns
ProcessInsertCountsFailure ==
  /\ pc = "process"
  /\ ProcessCondition
  /\ \E details \in DetailsOf(Current.url) :
       /\ ~Incomplete(details)
       /\ \E r \in InsertWithRetry(MapToSupabaseColumns(details, sessionId),
                                    store, 1, <<>>, <<>>) :
            /\ store' = r.rows
            /\ lastInsert' = [r EXCEPT !.rows = <<>>]
            /\ reloads' = <<>>
            /\ processed' = Append(processed, Fate(r.outcome))
            /\ results' = Append(results, details)
            /\ newFound' = newFound + 1
            /\ progressLog' =
                 Append(progressLog,
                        [percent |-> Percent(newFound + 1, targetResults),
                         snapshot |-> Append(results, details)])
  /\ currentUpdatedIndex' = Current.index + 1
  /\ qi' = qi + 1
  /\ UNCHANGED <<pc, callVars, progressVars, sessionId, targetResults, buffer,
                 processedUrls, allCards, scrollAttempts, urlsToProcess,
                 scrapeResult, returned, storeAtStart, listed, topUpQuery>>

\* a loop that pushes the record of a failed insert without counting it
ProcessInsertPushesFailure ==
  /\ pc = "process"
  /\ ProcessCondition
  /\ \E details \in DetailsOf(Current.url) :
       /\ ~Incomplete(details)
       /\ \E r \in InsertWithRetry(MapToSupabaseColumns(details, sessionId),
                                    store, 1, <<>>, <<>>) :
            /\ store' = r.rows
            /\ lastInsert' = [r EXCEPT !.rows = <<>>]
            /\ reloads' = <<>>
            /\ processed' = Append(processed, Fate(r.outcome))
            /\ results' = Append(results, details)
            /\ IF r.success
                 THEN /\ newFound' = newFound + 1
                      /\ progressLog' =
                           Append(progressLog,
                                  [percent |-> Percent(newFound + 1, targetResults),
                                   snapshot |-> Append(results, details)])
                 ELSE UNCHANGED <<newFound, progressLog>>
  /\ currentUpdatedIndex' = Current.index + 1
  /\ qi' = qi + 1
  /\ UNCHANGED <<pc, callVars, progressVars, sessionId, targetResults, buffer,
                 processedUrls, allCards, scrollAttempts, urlsToProcess,
                 scrapeResult, returned, storeAtStart, listed, topUpQuery>>

\* The details are complete: insertWithRetry, on success results.push,
\* newFound++ and progressCb; then navigateBackToList (which catches its
\* own faults) and currentUpdatedIndex = index + 1.
ProcessInsert ==
  /\ pc = "process"
  /\ ProcessCondition
  /\ \E details \in DetailsOf(Current.url) :
       /\ ~Incomplete(details)
       /\ \E r \in InsertWithRetry(MapToSupabaseColumns(details, sessionId),
                                    store, 1, <<>>, <<>>) :
            /\ store' = r.rows
            /\ lastInsert' = [r EXCEPT !.rows = <<>>]
            /\ reloads' = <<>>
            /\ processed' = Append(processed, Fate(r.outcome))
            /\ IF r.success
                 THEN /\ results' = Append(results, details)
                      /\ newFound' = newFound + 1
                      /\ progressLog' =
                           Append(progressLog,
                                  [percent |-> Percent(newFound + 1, targetResults),
                                   snapshot |-> Append(results, details)])
                 ELSE UNCHANGED <<results, newFound, progressLog>>
  /\ currentUpdatedIndex' = Current.index + 1
  /\ qi' = qi + 1
  /\ UNCHANGED <<pc, callVars, progressVars, sessionId, targetResults, buffer,
                 processedUrls, allCards, scrollAttempts, urlsToProcess,
                 scrapeResult, returned, storeAtStart, listed, topUpQuery>>

\* The processing loop is over: if (newFound < targetResults)
\* currentUpdatedIndex = allCards.length; back to the top of the while.
EndPass ==
  /\ pc = "process"
  /\ ~ProcessCondition
  /\ currentUpdatedIndex' =
       IF newFound < targetResults THEN Len(allCards) ELSE currentUpdatedIndex
  /\ urlsToProcess' = <<>>      \* const urlsToProcess: scoped to the pass
  /\ qi' = 0
  /\ lastInsert' = NoInsert
  /\ reloads' = <<>>
  /\ pc' = "loop"
  /\ UNCHANGED <<callVars, store, progressVars, sessionId, targetResults,
                 buffer, results, newFound, processedUrls, allCards,
                 scrollAttempts, scrapeResult, returned, runHistory>>

\* The while loop is left: results.splice(targetResults) when too long, then
\* return { newFound: results.length, updatedIndex: currentUpdatedIndex,
\*          results }.
ExitLoop ==
  /\ pc = "loop"
  /\ ~LoopCondition
  /\ results' = Splice(results, targetResults)
  /\ Return([newFound |-> Len(results'), updatedIndex |-> currentUpdatedIndex,
             results |-> results', via |-> "return"])
  /\ UNCHANGED <<callVars, store, progressVars, sessionId, targetResults,
                 buffer, newFound, currentUpdatedIndex, scrollAttempts,
                 returned, runHistory>>

\* ------------------------------------------- scrapeAndEnrich, the end
\* const newFound = results.length, taken before the final correction
EnrichNewFound == Len(scrapeResult.results)

\* .from('business_results').select('*')
\*   .order('created_at', { ascending: false }).limit(maxResults)
NewestRows(rows, limit) == Slice0(Reverse(rows), limit)

\* a final correction that appends nothing
TopUpNothing(list, rows, limit) == list

\* const needed = maxResults - results.length;
\* results.push(...dbResults.slice(0, needed))
TopUp(list, rows, limit) ==
  LET dbResults == [i \in DOMAIN NewestRows(rows, limit) |->
                      DbToScraper(NewestRows(rows, limit)[i])]
      needed == limit - Len(list)
  IN list \o Slice0(dbResults, needed)

\* step 5 as a whole, its query answering:
\* if (results.length < maxResults) top up; else if (>) splice
Reconcile(list, rows, limit) ==
  IF Len(list) < limit THEN TopUp(list, rows, limit) ELSE Splice(list, limit)

\* a return that skips the newFound === 0 check
ReturnedAlways(list) == list

\* if (newFound === 0) return []; ... return results
Returned(list) == IF EnrichNewFound = 0 THEN <<>> ELSE list

\* The verification query of step 4 only logs. Step 5, results shorter than
\* maxResults and the query answers: top up from the table.
ReconcileTopUp ==
  /\ pc = "reconcile"
  /\ Len(scrapeResult.results) < maxResults
  /\ topUpQuery' = "rows"
  /\ results' = TopUp(scrapeResult.results, store, maxResults)
  /\ returned' = Returned(results')
  /\ pc' = "returned"
  /\ UNCHANGED <<callVars, store, progressVars, sessionId, targetResults,
                 buffer, newFound, processedUrls, currentUpdatedIndex,
                 allCards, scrollAttempts, urlsToProcess, qi, scrapeResult,
                 storeAtStart, listed, processed, progressLog, lastInsert, reloads>>

\* Step 5, the query answers with an error or throws (caught): results stay.
ReconcileFault ==
  /\ pc = "reconcile"
  /\ Len(scrapeResult.results) < maxResults
  /\ topUpQuery' = "fault"
  /\ results' = scrapeResult.results
  /\ returned' = Returned(results')
  /\ pc' = "returned"
  /\ UNCHANGED <<callVars, store, progressVars, sessionId, targetResults,
                 buffer, newFound, processedUrls, currentUpdatedIndex,
                 allCards, scrollAttempts, urlsToProcess, qi, scrapeResult,
                 storeAtStart, listed, processed, progressLog, lastInsert, reloads>>

\* Step 5, results.length === maxResults (nothing to do), or longer:
\* results.splice(maxResults).
ReconcileTrim ==
  /\ pc = "reconcile"
  /\ Len(scrapeResult.results) >= maxResults
  /\ results' = Splice(scrapeResult.results, maxResults)
  /\ returned' = Returned(results')
  /\ pc' = "returned"
  /\ UNCHANGED <<callVars, store, progressVars, sessionId, targetResults,
                 buffer, newFound, processedUrls, currentUpdatedIndex,
                 allCards, scrollAttempts, urlsToProcess, qi, scrapeResult,
                 historyVars>>

\* ------------------------------------------------------------ scrapeUrls
\* cards.slice(startIndex, endIndex) with endIndex = maxResults ?
\* Math.min(updatedIndex + maxResults, cards.length) : cards.length
SliceCards(cards, start, limit) ==
  SubSeq(cards, start + 1,
         IF limit # 0 THEN Min(start + limit, Len(cards)) ELSE Len(cards))

\* isSponsored: the text of the card or of an element up to two levels
\* above it, or of the first span or h1 of its parent, includes 'Sponsored'
IsSponsored(card) == card \in SponsoredUrls

\* for (let i = 0; i < cards.length; i++): a sponsored card is skipped, and
\* so is a card whose evaluate or getAttribute('href') throws; the others
\* are pushed, each with a call of progressCb.
RECURSIVE ScrapeUrlsLoop(_, _, _, _)
ScrapeUrlsLoop(cards, i, urls, log) ==
  IF i >= Len(cards) THEN [urls |-> urls, log |-> log]
  ELSE IF cards[i + 1] = Broken \/ IsSponsored(cards[i + 1])
    THEN ScrapeUrlsLoop(cards, i + 1, urls, log)
  ELSE ScrapeUrlsLoop(cards, i + 1, Append(urls, cards[i + 1]),
                      Append(log, [percent |-> Percent(i + 1, Len(cards)),
                                   snapshot |-> Append(urls, cards[i + 1])]))

\* A caller invokes scrapeUrls(searchTerm, location, maxResults, cb,
\* updatedIndex).
ScrapeUrls ==
  /\ pc = "idle"
  /\ entry' = "scrapeUrls"
  /\ maxResults' \in UrlLimits
  /\ updatedIndex' \in DirectIndexes
  /\ pc' = "urlsNavigate"
  /\ UNCHANGED <<store, lastRetrievedCount, existingUrls, sessionId,
                 targetResults, buffer, loopVars, scrapeResult, returned,
                 historyVars>>

\* page.goto, a waitForSelector, page.$$ or the scrolling throws: scrapeUrls
\* has no try around them and rejects.
ScrapeUrlsFault ==
  /\ pc = "urlsNavigate"
  /\ pc' = "thrown"
  /\ UNCHANGED <<callVars, store, progressVars, sessionId, targetResults,
                 buffer, loopVars, scrapeResult, returned, historyVars>>

\* if (!scrollable) return []
ScrapeUrlsNoScrollable ==
  /\ pc = "urlsNavigate"
  /\ returned' = <<>>
  /\ pc' = "urlsReturnedEmpty"
  /\ UNCHANGED <<callVars, store, progressVars, sessionId, targetResults,
                 buffer, loopVars, scrapeResult, historyVars>>

\* The list is scrolled to its end, the cards from updatedIndex on are
\* taken, and the URLs of those not sponsored are returned.
ScrapeUrlsReturn ==
  /\ pc = "urlsNavigate"
  /\ \E cards \in CardLists(0) :
       LET r == ScrapeUrlsLoop(SliceCards(cards, updatedIndex, maxResults),
                               0, <<>>, <<>>)
       IN /\ allCards' = cards
          /\ listed' = Shown(cards)
          /\ returned' = r.urls
          /\ progressLog' = r.log
  /\ pc' = "urlsReturned"
  /\ UNCHANGED <<callVars, store, progressVars, sessionId, targetResults,
                 buffer, results, newFound, processedUrls,
                 currentUpdatedIndex, scrollAttempts, urlsToProcess, qi,
                 scrapeResult, storeAtStart, processed, topUpQuery,
                 lastInsert, reloads>>

\* ------------------------------------------------------ specification
\* the main loop of scrapeUrlsAndDetails, whoever called it
MainLoop ==
  \/ NavigateOk
  \/ NavigateFault
  \/ NoScrollable
  \/ LoadCards
  \/ LoadFault
  \/ ExtractUrls
  \/ ProcessNavigationFault
  \/ ProcessIncomplete
  \/ ProcessInsert
  \/ EndPass
  \/ ExitLoop

\* runs of scrapeAndEnrich
Next ==
  \/ ScrapeAndEnrich
  \/ GetPermanentSearchProgress
  \/ CreateSession
  \/ MainLoop
  \/ ReconcileTopUp
  \/ ReconcileFault
  \/ ReconcileTrim

Spec == Init /\ [][Next]_vars

\* runs of scrapeUrlsAndDetails called on its own
NextDetails ==
  \/ ScrapeUrlsAndDetails
  \/ MainLoop

SpecDetails == Init /\ [][NextDetails]_vars

\* the same runs, the program taking its next step as long as it has one:
\* every substrate and store call returns or fails
FairSpecDetails == SpecDetails /\ WF_vars(NextDetails)

\* a run over a long card list: scrapeUrlsAndDetails, called with cursor 0,
\* buffer 0 and an empty table, has loaded LongList cards of different
\* businesses at its first listing and is about to read them
InitLongList ==
  /\ pc = "extract"
  /\ entry = "scrapeUrlsAndDetails"
  /\ store = <<>>
  /\ maxResults = 0
  /\ updatedIndex = 0
  /\ lastRetrievedCount = 0
  /\ existingUrls = {}
  /\ sessionId = 0
  /\ targetResults \in 1..MaxTarget
  /\ buffer = 0
  /\ results = <<>>
  /\ newFound = 0
  /\ processedUrls = {}
  /\ currentUpdatedIndex = 0
  /\ allCards = [i \in 1..LongList |-> i]
  /\ scrollAttempts = 0
  /\ urlsToProcess = <<>>
  /\ qi = 0
  /\ scrapeResult = NoResult
  /\ returned = <<>>
  /\ storeAtStart = store
  /\ listed = 1..LongList
  /\ processed = <<>>
  /\ topUpQuery = "none"
  /\ progressLog = <<>>
  /\ lastInsert = NoInsert
  /\ reloads = <<>>

NextLongList ==
  \/ ExtractUrls
  \/ ProcessNavigationFault
  \/ ProcessIncomplete
  \/ ProcessInsert
  \/ EndPass
  \/ LoadCards
  \/ LoadFault
  \/ ExitLoop

SpecLongList == InitLongList /\ [][NextLongList]_vars

\* the percent computation on its own: a run with target targetResults is
\* about to make its next commit, the (newFound + 1)-th ...
InitPercent ==
  /\ pc = "commit"
  /\ entry = "scrapeUrlsAndDetails"
  /\ store = <<>>
  /\ maxResults = 0
  /\ updatedIndex = 0
  /\ lastRetrievedCount = 0
  /\ existingUrls = {}
  /\ sessionId = 0
  /\ targetResults \in 1..MaxPercentTarget
  /\ buffer = 0
  /\ results = <<>>
  /\ newFound \in 0..(targetResults - 1)
  /\ processedUrls = {}
  /\ currentUpdatedIndex = 0
  /\ allCards = <<>>
  /\ scrollAttempts = 0
  /\ urlsToProcess = <<>>
  /\ qi = 0
  /\ scrapeResult = NoResult
  /\ returned = <<>>
  /\ storeAtStart = store
  /\ listed = {}
  /\ processed = <<>>
  /\ topUpQuery = "none"
  /\ progressLog = <<>>
  /\ lastInsert = NoInsert
  /\ reloads = <<>>

\* ... newFound++; progressCb(Math.round((newFound / targetResults) * 100),
\* ...): what the callback is given is logged
ProgressCb ==
  /\ pc = "commit"
  /\ newFound' = newFound + 1
  /\ progressLog' = Append(progressLog,
                           [percent |-> Percent(newFound', targetResults),
                            snapshot |-> results])
  /\ pc' = "called"
  /\ UNCHANGED <<callVars, store, progressVars, sessionId, targetResults,
                 buffer, results, processedUrls, currentUpdatedIndex,
                 allCards, scrollAttempts, urlsToProcess, qi, scrapeResult,
                 returned, storeAtStart, listed, processed, topUpQuery,
                 lastInsert, reloads>>

SpecPercent == InitPercent /\ [][ProgressCb]_vars

\* the final correction on its own: scrapeUrlsAndDetails has handed over
\* some list of complete records with distinct URLs, all of them in the
\* table (after the rows an earlier run left there)
ResultLists ==
  {list \in UNION {[1..n -> {d \in UNION {DetailsOf(u) : u \in Urls} :
                                ~Incomplete(d)}] : n \in 0..MaxList} :
     \A i, j \in DOMAIN list : list[i].URL = list[j].URL => i = j}

RowsOf(list) == [i \in DOMAIN list |-> MapToSupabaseColumns(list[i], 0)]

StoreAfter(rows, list) ==
  rows \o SelectSeq(RowsOf(list), LAMBDA row : row.url \notin RowUrls(rows))

InitReconcile ==
  /\ pc = "reconcile"
  /\ entry = "scrapeAndEnrich"
  /\ maxResults \in 1..MaxTarget
  /\ storeAtStart \in InitialStores
  /\ results \in ResultLists
  /\ store = StoreAfter(storeAtStart, results)
  /\ scrapeResult = [newFound |-> Len(results), updatedIndex |-> 0,
                     results |-> results, via |-> "return"]
  /\ updatedIndex = 0
  /\ lastRetrievedCount = 0
  /\ existingUrls = {}
  /\ sessionId = 0
  /\ targetResults = maxResults
  /\ buffer = EnrichBuffer
  /\ newFound = Len(results)
  /\ processedUrls = {}
  /\ currentUpdatedIndex = 0
  /\ allCards = <<>>
  /\ scrollAttempts = 0
  /\ urlsToProcess = <<>>
  /\ qi = 0
  /\ returned = <<>>
  /\ listed = {}
  /\ processed = <<>>
  /\ topUpQuery = "none"
  /\ progressLog = <<>>
  /\ lastInsert = NoInsert
  /\ reloads = <<>>

NextReconcile ==
  \/ ReconcileTopUp
  \/ ReconcileFault
  \/ ReconcileTrim

SpecReconcile == InitReconcile /\ [][NextReconcile]_vars

\* the progress read on its own, on a table that runs of two searches have
\* written to. The search_sessions row of a run holds its search_term and
\* location, and the rows the run inserts carry its id: the sessions of
\* the (query, location) now called have the id OwnSession, those of
\* another (query, location) the id OtherSession.
OwnSession == 1
OtherSession == 2

\* the rows a run of session `session` has committed, as a table holds them
SessionRow(url, session) == [OldRow(url) EXCEPT !.search_session_id = session]

\* the rows of the table that runs of this (query, location) committed
OwnRows(rows) ==
  SelectSeq(rows, LAMBDA row : row.search_session_id = OwnSession)

\* the tables of rows with different URLs, each written by one of the two
\* searches
SharedStores ==
  {rows \in UNION {[1..n -> {SessionRow(u, k) :
                               u \in Urls, k \in {OwnSession, OtherSession}}] :
                   n \in 0..Cardinality(Urls)} :
     \A i, j \in DOMAIN rows : rows[i].url = rows[j].url => i = j}

\* scrapeAndEnrich(searchTerm, location, maxResults, cb) has been called
\* and is about to read its progress
InitProgress ==
  /\ pc = "getProgress"
  /\ entry = "scrapeAndEnrich"
  /\ store \in SharedStores
  /\ maxResults \in 1..MaxTarget
  /\ updatedIndex = 0
  /\ lastRetrievedCount = 0
  /\ existingUrls = {}
  /\ sessionId = 0
  /\ targetResults = 0
  /\ buffer = 0
  /\ results = <<>>
  /\ newFound = 0
  /\ processedUrls = {}
  /\ currentUpdatedIndex = 0
  /\ allCards = <<>>
  /\ scrollAttempts = 0
  /\ urlsToProcess = <<>>
  /\ qi = 0
  /\ scrapeResult = NoResult
  /\ returned = <<>>
  /\ storeAtStart = store
  /\ listed = {}
  /\ processed = <<>>
  /\ topUpQuery = "none"
  /\ progressLog = <<>>
  /\ lastInsert = NoInsert
  /\ reloads = <<>>

SpecProgress == InitProgress /\ [][GetPermanentSearchProgress]_vars

\* two runs in a row: after scrapeAndEnrich has returned, a caller invokes
\* it again for the same (query, location) and the same maxResults, on the
\* table the earlier run left; scrapeResult still shows what the main loop
\* of the earlier run returned. Nothing of search_sessions is read by
\* either run, and nothing is written to it after the insert of
\* CreateSession: updateSessionProgress has no caller.
ScrapeAndEnrichAgain ==
  /\ pc = "returned"
  /\ scrapeResult.via # "none"
  /\ pc' = "getProgress"
  /\ UNCHANGED <<callVars, store, progressVars, sessionId, targetResults,
                 buffer, loopVars, scrapeResult, returned, historyVars>>

\* the later run is followed up to the end of its progress read
NextResume ==
  \/ ScrapeAndEnrich
  \/ GetPermanentSearchProgress
  \/ (scrapeResult.via = "none" /\ CreateSession)
  \/ MainLoop
  \/ ReconcileTopUp
  \/ ReconcileFault
  \/ ReconcileTrim
  \/ ScrapeAndEnrichAgain

SpecResume == Init /\ [][NextResume]_vars

\* the candidate source called on its own, in either form: scrapeUrls, or
\* scrapeUrlsAndDetails with its main loop
NextSource ==
  \/ ScrapeUrls
  \/ ScrapeUrlsFault
  \/ ScrapeUrlsNoScrollable
  \/ ScrapeUrlsReturn
  \/ ScrapeUrlsAndDetails
  \/ MainLoop

SpecSource == Init /\ [][NextSource]_vars

\* ------------------------------------------------------------- claims
\* the candidates handed to extractBusinessDetails: page.goto(url) went
\* through
Submitted == SelectSeq(processed, LAMBDA e : e.fate # "navigationFault")

\* the candidates whose insertWithRetry returned true
Committed ==
  SelectSeq(processed, LAMBDA e : e.fate \in {"inserted", "duplicate"})

EntryUrls(log) == [i \in DOMAIN log |-> log[i].url]

Distinct(s) == \A i, j \in DOMAIN s : s[i] = s[j] => i = j

\* the records the main loop produced
Produced == Len(scrapeResult.results)

\* C1: when scrapeAndEnrich has returned from a run whose card lists showed
\* at least maxResults distinct URLs that were not in the table at the
\* start, in which every candidate taken up was extracted completely and
\* inserted as a new row, and no page or query fault occurred, the
\* returned list has length exactly maxResults.
ExactCount ==
  (/\ pc = "returned"
   /\ Cardinality(listed \ RowUrls(storeAtStart)) >= maxResults
   /\ \A i \in DOMAIN processed : processed[i].fate = "inserted"
   /\ scrapeResult.via = "return"
   /\ topUpQuery # "fault")
  => Len(returned) = maxResults

\* C2: the URLs of the list scrapeAndEnrich returns are pairwise distinct.
DistinctReturned == pc = "returned" => Distinct(UrlsOf(returned))

\* C3: within a run of scrapeUrlsAndDetails the URLs submitted to
\* extractBusinessDetails are pairwise distinct and none of them is in
\* existingUrls.
NoResubmission ==
  /\ Distinct(EntryUrls(Submitted))
  /\ \A i \in DOMAIN Submitted : Submitted[i].url \notin existingUrls

\* C3 happens: the card list read by the run shows a URL of existingUrls
\* and shows a URL twice, and the run has submitted that URL.
NoResubmissionWitness ==
  /\ \E i \in DOMAIN allCards :
       allCards[i] \in existingUrls /\ i - 1 >= updatedIndex
  /\ \E i, j \in DOMAIN allCards, e \in DOMAIN Submitted :
       /\ i < j
       /\ i - 1 >= updatedIndex
       /\ allCards[i] = allCards[j]
       /\ Submitted[e].url = allCards[i]

ShortfallNotPadded ==
  (/\ pc = "returned"
   /\ storeAtStart = <<>>
   /\ scrapeResult.via = "return"
   /\ Produced < maxResults
   /\ \A i \in DOMAIN processed : processed[i].fate = "inserted"
   /\ RowUrls(store) = Range(UrlsOf(scrapeResult.results))
   /\ topUpQuery = "rows")
  => returned = scrapeResult.results

\* C7: scrapeAndEnrich never ends by throwing to its caller.
NeverThrows == pc # "thrown"

\* C8: when scrapeUrlsAndDetails has ended through its outer catch, it has
\* returned (not thrown) the records committed so far, all of them and in
\* order, with their count and the current cursor.
PartialOnFault ==
  /\ entry = "scrapeUrlsAndDetails" => pc # "thrown"
  /\ (pc = "done" /\ scrapeResult.via = "functionError") =>
       /\ UrlsOf(scrapeResult.results) = EntryUrls(Committed)
       /\ scrapeResult.results = results
       /\ scrapeResult.newFound = Len(Committed)
       /\ scrapeResult.updatedIndex = currentUpdatedIndex

\* C8 happens: a fault escaped the loop after a record was committed.
PartialOnFaultWitness ==
  /\ pc = "done"
  /\ scrapeResult.via = "functionError"
  /\ Len(Committed) >= 1

\* round(k / T * 100) in exact arithmetic, a half going up
HalfUp(k, T) == (2 * 100 * k + T) \div (2 * T)

\* C9 (the percent): the k-th commit of a run with target T calls the
\* progress callback with the nearest integer to 100 * k / T, halves up.
PercentHalfUp ==
  pc = "called" =>
    progressLog[Len(progressLog)].percent = HalfUp(newFound, targetResults)

\* C10: the cursor scrapeUrlsAndDetails returns is not below the cursor
\* the run was started with (checked for the runs whose card list showed
\* at least one business).
CursorForward ==
  (pc = "done" /\ listed # {}) => scrapeResult.updatedIndex >= updatedIndex

\* C11: applying the final correction (top-up or trim, its query
\* answering) to the list it has produced, with the same target and the
\* same table, gives that list again.
ReconcileIdempotent ==
  (pc = "returned" /\ topUpQuery # "fault")
  => Reconcile(results, store, maxResults) = results

\* C15: when the list handed to the final correction is longer than
\* maxResults, the corrected list and the list returned are its first
\* maxResults entries, in order and unchanged.
TrimKeepsFirst ==
  (pc = "returned" /\ Len(scrapeResult.results) > maxResults) =>
    /\ results = [i \in 1..maxResults |-> scrapeResult.results[i]]
    /\ returned = results

\* C15 happens: a list longer than maxResults has been corrected.
TrimKeepsFirstWitness ==
  /\ pc = "returned"
  /\ Len(scrapeResult.results) > maxResults
  /\ Len(returned) = maxResults

\* the entry of the candidate processed last
LastProcessed == processed[Len(processed)]

\* C12: a navigation fault at a candidate leaves the processing loop
\* running with the results as they were; when a pass ends before the
\* target is met, every queued candidate has been processed; and the
\* result list holds every candidate that was committed, in order.
NavigationFaultGoesOn ==
  [][/\ (processed' # processed /\ LastProcessed'.fate = "navigationFault") =>
          /\ pc' = "process"
          /\ qi' = qi + 1
          /\ results' = results
     /\ (pc = "process" /\ pc' = "loop" /\ newFound < targetResults) =>
          \A k \in DOMAIN urlsToProcess :
            \E e \in DOMAIN processed :
              /\ processed[e].url = urlsToProcess[k].url
              /\ processed[e].index = urlsToProcess[k].index
     /\ pc' \in {"process", "loop", "done"} =>
          UrlsOf(results') = EntryUrls(Committed')]_vars

\* C12 happens: a candidate met a navigation fault and a later one of the
\* same queue was committed.
NavigationFaultGoesOnWitness ==
  \E i, j \in DOMAIN processed :
    /\ i < j
    /\ processed[i].fate = "navigationFault"
    /\ processed[j].fate \in {"inserted", "duplicate"}
    /\ \E k, l \in DOMAIN urlsToProcess :
         /\ urlsToProcess[k].url = processed[i].url
         /\ urlsToProcess[l].url = processed[j].url
    /\ processed[j].url \in Range(UrlsOf(results))

\* C13: the list scrapeAndEnrich returns is as long as the number of rows
\* the run added to business_results.
ReturnedMatchesAdded ==
  pc = "returned" => Len(returned) = Len(store) - Len(storeAtStart)

\* C14: the scroll attempts of a run never exceed 50 and an insert never
\* takes more than 3 attempts; every pass of the main loop scrolls or
\* loads a card list longer than the one before; and the run ends.
Terminates ==
  /\ [](scrollAttempts <= 50 /\ lastInsert.attempts <= 3)
  /\ [][(pc = "loop" /\ pc' = "extract") =>
          (scrollAttempts' > scrollAttempts \/ Len(allCards') > Len(allCards))]_vars
  /\ <>(pc = "done")

\* C14 happens: a run went through a pass without scrolling, through a
\* second pass, made an insert of 3 attempts, and has ended.
TerminatesWitness ==
  /\ pc = "done"
  /\ scrollAttempts = 50
  /\ \E e \in DOMAIN processed : processed[e].fate = "failed"
  /\ \E i, j \in DOMAIN processed : processed[i].index < processed[j].index

\* C16: a step in which the insert is answered with the duplicate-key
\* violation counts the record (newFound grows by 1) and leaves the result
\* list as it was.
DuplicateNotAppended ==
  [][(processed' # processed /\ lastInsert'.outcome = "duplicate"
        /\ lastInsert'.success) =>
       /\ newFound' = newFound + 1
       /\ results' = results]_vars

\* C18: candidates are processed in increasing position order, the cursor
\* never decreases during a run, and no candidate is processed at a
\* position the cursor has passed.
OrderedForward ==
  [][/\ pc # "idle" => currentUpdatedIndex' >= currentUpdatedIndex
     /\ \A i, j \in DOMAIN processed' :
          i < j => processed'[i].index < processed'[j].index
     /\ processed' # processed =>
          LastProcessed'.index >= currentUpdatedIndex]_vars

FailedInsertSkipped ==
  [][(processed' # processed /\ lastInsert'.outcome # "none"
        /\ ~lastInsert'.success) =>
       /\ newFound' = newFound
       /\ results' = results
       /\ progressLog' = progressLog
       /\ currentUpdatedIndex' = LastProcessed'.index + 1
       /\ pc' = "process"
       /\ qi' = qi + 1]_vars

\* C20 happens: an insert failed and a later candidate of the same queue
\* was processed.
FailedInsertSkippedWitness ==
  \E i, j \in DOMAIN processed :
    /\ i < j
    /\ processed[i].fate \in {"failed", "norows"}
    /\ \E k, l \in DOMAIN urlsToProcess :
         /\ urlsToProcess[k].url = processed[i].url
         /\ urlsToProcess[l].url = processed[j].url

\* C17: when a pass ends, every loaded card from the starting cursor up
\* to the new cursor whose href was read has been checked against the
\* ledger: its URL is in processedUrls (it was queued) or in existingUrls.
NoCardPassedOver ==
  [][(pc = "process" /\ pc' = "loop") =>
       \A i \in updatedIndex..(currentUpdatedIndex' - 1) :
         (i + 1 \in DOMAIN allCards /\ allCards[i + 1] \in listed) =>
           allCards[i + 1] \in processedUrls \cup existingUrls]_vars

\* C21: insertWithRetry is only ever called with a record that has its
\* business name, address and phone number; and a step that finds the
\* details of a candidate incomplete makes no insert, leaves newFound, the
\* result list and the table as they were, sets the cursor just past the
\* candidate, goes on with the next queue entry and has taken up the
\* candidate this once only.
IncompleteNeverInserted ==
  /\ [](lastInsert.outcome # "none" =>
          /\ lastInsert.data.business_name
          /\ lastInsert.data.address
          /\ lastInsert.data.phone_number)
  /\ [][(processed' # processed /\ LastProcessed'.fate = "incomplete") =>
          /\ lastInsert'.outcome = "none"
          /\ newFound' = newFound
          /\ results' = results
          /\ store' = store
          /\ currentUpdatedIndex' = LastProcessed'.index + 1
          /\ pc' = "process"
          /\ qi' = qi + 1
          /\ \A e \in DOMAIN processed :
               processed[e].url # LastProcessed'.url]_vars

\* C21 happens: a candidate was skipped as incomplete and a later one has
\* just been inserted.
IncompleteNeverInsertedWitness ==
  /\ lastInsert.outcome = "inserted"
  /\ \E i, j \in DOMAIN processed :
       /\ i < j
       /\ processed[i].fate = "incomplete"
       /\ processed[j].fate = "inserted"
       /\ processed[j].url = lastInsert.data.url

\* C22: the cursor, the committed count and the known URLs a run of
\* scrapeAndEnrich starts with are those of the rows that runs of the same
\* (query, location) committed (or zero and none, when the read failed):
\* rows committed for another (query, location) do not enter them.
OwnRecordsOnly ==
  pc = "createSession" =>
    /\ updatedIndex \in {0, Len(OwnRows(store))}
    /\ lastRetrievedCount \in {0, Len(OwnRows(store))}
    /\ existingUrls \subseteq RowUrls(OwnRows(store))

\* C23: when a run of scrapeAndEnrich whose store calls were all answered
\* and accepted (the progress read, every insert, the top-up query) has
\* ended normally, a later run of the same (query, location) whose
\* progress read answers starts from the cursor at which the earlier run
\* ended.
ResumesWhereEnded ==
  [][(/\ pc = "getProgress"
      /\ scrapeResult.via = "return"
      /\ updatedIndex = Len(storeAtStart)
      /\ \A e \in DOMAIN processed : processed[e].fate \notin {"failed", "norows"}
      /\ topUpQuery # "fault"
      /\ ProgressRead)
     => updatedIndex' = scrapeResult.updatedIndex]_vars

\* C24: a step in which the navigation to a candidate fails makes exactly
\* one recovery navigation, to the position index + 1 of the candidate,
\* sets the cursor just past the candidate and goes on with the next queue
\* entry.
OneRecoveryNavigation ==
  [][(processed' # processed /\ LastProcessed'.fate = "navigationFault") =>
       /\ reloads' = <<LastProcessed'.index + 1>>
       /\ currentUpdatedIndex' = LastProcessed'.index + 1
       /\ pc' = "process"
       /\ qi' = qi + 1]_vars

\* C25: no URL of a sponsored card is in the list scrapeUrls returns, and
\* none is submitted to extraction or committed by the main loop of
\* scrapeUrlsAndDetails.
NoSponsoredYielded ==
  /\ pc = "urlsReturned" => Range(returned) \cap SponsoredUrls = {}
  /\ \A e \in DOMAIN Submitted : Submitted[e].url \notin SponsoredUrls
  /\ \A e \in DOMAIN Committed : Committed[e].url \notin SponsoredUrls

\* the scrapeUrls half of C25, which holds: sponsored cards were among
\* those taken and none of their URLs is returned
ScrapeUrlsSkipsSponsored ==
  pc = "urlsReturned" => Range(returned) \cap SponsoredUrls = {}

\* C26: when the main loop of a run handed no record to scrapeAndEnrich,
\* scrapeAndEnrich returns the empty list, whatever the table holds and
\* whatever the top-up appended to results.
EmptyWhenNothingFound ==
  (pc = "returned" /\ EnrichNewFound = 0) => returned = <<>>

\* C26 happens: the main loop committed nothing, the top-up appended rows
\* of the table, and scrapeAndEnrich has returned.
EmptyWhenNothingFoundWitness ==
  /\ pc = "returned"
  /\ EnrichNewFound = 0
  /\ topUpQuery = "rows"
  /\ Len(results) > 0
  /\ Len(store) > 0

\* C27: when page.$('div[role="feed"]') finds no container, scrapeUrls
\* returns the empty list without having listed a card, and
\* scrapeUrlsAndDetails returns (it does not throw) no record, newFound 0
\* and the cursor it was called with, having made no scroll, listed no
\* card, taken up no candidate and left the table as it was.
NoScrollableNoCandidates ==
  /\ pc = "urlsReturnedEmpty" =>
       /\ returned = <<>>
       /\ allCards = <<>>
       /\ progressLog = <<>>
  /\ scrapeResult.via = "noScrollable" =>
       /\ pc = "done"
       /\ scrapeResult.newFound = 0
       /\ scrapeResult.results = <<>>
       /\ scrapeResult.updatedIndex = updatedIndex
       /\ scrollAttempts = 0
       /\ listed = {}
       /\ processed = <<>>
       /\ progressLog = <<>>
       /\ store = storeAtStart

\* C27 happens: scrapeUrlsAndDetails, called with a cursor above 0, has
\* returned because the container was missing.
NoScrollableNoCandidatesWitness ==
  /\ pc = "done"
  /\ scrapeResult.via = "noScrollable"
  /\ updatedIndex > 0
  /\ Len(store) > 0

\* C28: throughout a run of scrapeUrlsAndDetails newFound is the length of
\* results and neither exceeds targetResults; newFound never decreases;
\* and when the while loop is left, the trim leaves results as they are.
CountMatchesList ==
  /\ [](/\ newFound = Len(results)
        /\ newFound <= targetResults
        /\ Len(results) <= targetResults)
  /\ [][newFound' >= newFound]_vars
  /\ [][(pc = "loop" /\ pc' = "done" /\ scrapeResult'.via = "return") =>
          /\ results' = results
          /\ scrapeResult'.results = results]_vars

\* C28 happens: the loop has met a target of 2 and the run has returned.
CountMatchesListWitness ==
  /\ pc = "done"
  /\ scrapeResult.via = "return"
  /\ targetResults = 2
  /\ newFound = 2
  /\ Len(urlsToProcess) = 0
  /\ Len(processed) > 2

\* C29: every step of the initial progress read other than the read
\* answering with the rows (the query answers with an error, or fails by
\* throwing) leads on to the session creation with cursor 0, committed
\* count 0 and no known URL.
ReadFailureGoesOn ==
  [][(pc = "getProgress" /\ ~ProgressRead) =>
       /\ pc' = "createSession"
       /\ updatedIndex' = 0
       /\ lastRetrievedCount' = 0
       /\ existingUrls' = {}]_vars

\* C30: of the attempts of an insertWithRetry call, every one but the last
\* was answered with an error other than the duplicate-key violation and
\* followed by a wait; the call returned true exactly when its last attempt
\* was answered with inserted rows or with the duplicate-key violation; an
\* attempt answered with no error and no rows was the last, the call
\* returning false with no wait after it; and an error ended the call only
\* at the third attempt.
SuccessOnlyOnRowsOrDuplicate ==
  lastInsert.outcome # "none" =>
    LET answers == lastInsert.answers
        last == answers[Len(answers)]
    IN /\ Len(answers) = lastInsert.attempts
       /\ Len(answers) \in 1..maxRetries
       /\ \A i \in 1..(Len(answers) - 1) : answers[i] = "error"
       /\ Len(lastInsert.waits) = Len(answers) - 1
       /\ lastInsert.success <=> last \in {"inserted", "duplicate"}
       /\ last = "norows" => ~lastInsert.success
       /\ last = "error" => Len(answers) = maxRetries

\* C30 happens: the first attempt of an insert was answered with no error
\* and no rows, and the call has returned.
SuccessOnlyOnRowsOrDuplicateWitness ==
  /\ lastInsert.outcome = "norows"
  /\ lastInsert.attempts = 1
  /\ lastInsert.waits = <<>>
  /\ ~lastInsert.success
  /\ LastProcessed.fate = "norows"

====
